---- MODULE Spec2Model ----
(***************************************************************************)
(* Batched distribution evaluators of the stochastic extension.            *)
(*                                                                         *)
(* A call of a registered scalar function receives a DataChunk (args), a   *)
(* row count and an output Vector (result).  Every evaluator is modelled   *)
(* as one atomic action that runs the whole handler; the order in which    *)
(* the handler validates parameters, constructs distributions and applies  *)
(* the operation is kept in the history variable trace.                    *)
(***************************************************************************)
EXTENDS Integers, Sequences, FiniteSets, TLC

VARIABLES
    phase,      \* "idle": no call in progress; "done": a call has ended
    evaluator,  \* name of the function template that ran
    args,       \* the DataChunk: sequence of input columns (args.data)
    count,      \* args.size()
    result,     \* the output Vector
    error,      \* exception that ended the call, NoError if it returned
    trace,      \* history: validate / construct / op events in program order
    rngPos,     \* number of draws the calling thread's generator has made
    thread_id_map,        \* rng_utils.cpp: std::thread::id -> index
    next_thread_index,    \* rng_utils.cpp: the next index to hand out
    thread_id_map_mutex,  \* owner of the registry mutex, NoThread when free
    pc,         \* per thread: where it is in a sampling call / get_thread_index
    frame,      \* per thread: locals of the call in progress
    rng,        \* per thread and translation unit: the thread_local generator
    returned,   \* history, per thread: the values get_thread_index returned
    mutations,  \* history, per thread: writes of its registry entry
    samples,    \* history, per thread: the sampling calls made and their values
    exited,     \* history, per thread id: the threads that had the id and have exited
    catalog,    \* the scalar functions registered so far
    loaded      \* per loader: how many of its registrations have run

callVars == <<phase, evaluator, args, count, result, error, trace, rngPos>>
registryVars == <<thread_id_map, next_thread_index, thread_id_map_mutex>>
threadVars == <<pc, frame, rng, returned, mutations, samples, exited>>
catalogVars == <<catalog, loaded>>
processVars == <<registryVars, threadVars, catalogVars>>
vars == <<callVars, processVars>>

\* Largest batch (args.size()) explored.
MaxRows == 2
\* Largest number of draws of the thread's generator explored.
MaxDraws == 2
\* Number of threads explored.
MaxThreads == 2
\* Rows the threads of the concurrent model sample in all.
MaxSampled == 3
\* Threads that exit, in all, in the model of thread lifetimes.
MaxExits == 1

(***************************************************************************)
(* Values.  A double is the rational <<"num", k, d>> (k / d, d > 0) or the  *)
(* NaN <<"nan", 0, 1>>; every ordered comparison with a NaN is false       *)
(* (IEEE-754).                                                             *)
(***************************************************************************)
Num(v) == <<"num", v, 1>>
Ratio(k, d) == <<"num", k, d>>
NaN == <<"nan", 0, 1>>
IsNaN(d) == d[1] = "nan"
DLt(a, b) == ~IsNaN(a) /\ ~IsNaN(b) /\ a[2] * b[3] < b[2] * a[3]
DGt(a, b) == DLt(b, a)
DLe(a, b) == ~IsNaN(a) /\ ~IsNaN(b) /\ a[2] * b[3] <= b[2] * a[3]

\* Placeholder for the second shape parameter of a one-parameter family.
NoParam == <<"none", 0, 1>>
\* Content of an output slot nothing was written to.
Unset == <<"unset">>

\* First shape parameter (binomial trials, int64_t; scale of a one-parameter family).
TrialsVals == {0, 1}
\* Second shape parameter (binomial prob, double).
ProbVals == {Num(1), Num(2), NaN}
\* Evaluation points.
XVals == {0, 1}

(***************************************************************************)
(* Columns.  vtype is the VectorType; valid[i] the validity bit of entry   *)
(* i; data[i] the buffer content; mask tells whether a validity buffer is  *)
(* allocated (ValidityMask::AllValid() is "no buffer allocated").  A       *)
(* CONSTANT_VECTOR has one entry.                                          *)
(***************************************************************************)
Column(t, m, v, d) == [vtype |-> t, mask |-> m, valid |-> v, data |-> d]

AnyInvalid(v) == \E i \in DOMAIN v : ~v[i]

\* Columns whose invalid slots hold the blank value z and whose validity
\* buffer is allocated exactly when some entry is invalid.
PlainCols(D, z, n) ==
    {Column("CONSTANT", FALSE, <<TRUE>>, <<d>>) : d \in D}
    \cup {Column("CONSTANT", TRUE, <<FALSE>>, <<z>>)}
    \cup {Column("FLAT", AnyInvalid(v), v, d) :
            <<v, d>> \in {vd \in [1..n -> BOOLEAN] \X [1..n -> D \cup {z}] :
                            \A i \in 1..n : IF vd[1][i] THEN vd[2][i] \in D
                                                        ELSE vd[2][i] = z}}

\* Columns with arbitrary content under invalid entries and a validity
\* buffer that may be allocated although every entry is valid.
RawCols(D, n) ==
    {Column(t, m, v, d) :
        <<t, m, v, d>> \in {q \in {"CONSTANT"} \X BOOLEAN \X [1..1 -> BOOLEAN] \X [1..1 -> D] :
                              AnyInvalid(q[3]) => q[2]}}
    \cup {Column(t, m, v, d) :
        <<t, m, v, d>> \in {q \in {"FLAT"} \X BOOLEAN \X [1..n -> BOOLEAN] \X [1..n -> D] :
                              AnyInvalid(q[3]) => q[2]}}

IsConstant(col) == col.vtype = "CONSTANT"
\* ConstantVector::IsNull
ConstantIsNull(col) == ~col.valid[1]
\* UnifiedVectorFormat: sel->get_index(i) (a constant maps every row to entry 0)
SelIndex(col, i) == IF IsConstant(col) THEN 1 ELSE i
\* validity.RowIsValid(sel->get_index(i))
RowIsValid(col, i) == col.valid[SelIndex(col, i)]
\* validity.AllValid()
AllValid(col) == ~col.mask
\* GetData(...)[sel->get_index(i)]
Entry(col, i) == col.data[SelIndex(col, i)]
\* The row is logically null in the column.
NullAt(col, i) == ~RowIsValid(col, i)

(***************************************************************************)
(* Errors.                                                                 *)
(***************************************************************************)
NoError == [kind |-> "none", param |-> "", value |-> Num(0)]
InvalidInput(p, v) == [kind |-> "InvalidInput", param |-> p, value |-> v]
InternalError == [kind |-> "Internal", param |-> "", value |-> Num(0)]

\* Variant of ValidateParameters: the probability is tested before the trials.
ValidateParametersProbFirst(trials, prob) ==
    IF DLt(prob, Num(0)) \/ DGt(prob, Num(1)) THEN [kind |-> "InvalidInput", param |-> "prob", value |-> prob]
    ELSE IF trials <= 0 THEN [kind |-> "InvalidInput", param |-> "trials", value |-> Num(trials)]
    ELSE [kind |-> "none", param |-> "", value |-> Num(0)]

\* distribution_traits_base<binomial>::ValidateParameters: NoError when it returns.
ValidateParameters(trials, prob) ==
    IF trials <= 0 THEN InvalidInput("trials", Num(trials))
    ELSE IF DLt(prob, Num(0)) \/ DGt(prob, Num(1)) THEN InvalidInput("prob", prob)
    ELSE NoError

\* ValidateParameters of a one-parameter family: the scale must be positive.
ValidateParameters1(scale) ==
    IF scale <= 0 THEN InvalidInput("scale", Num(scale)) ELSE NoError

(***************************************************************************)
(* The running call: res is the output vector, err the pending exception,  *)
(* tr the events so far, pos the generator position, val the value the     *)
(* last operation returned.  Once err is set every later step is skipped.  *)
(***************************************************************************)
Event(e, row, p1, p2, arg) == [ev |-> e, row |-> row, p1 |-> p1, p2 |-> p2, arg |-> arg]

Capacity(n) == IF n = 0 THEN 1 ELSE n

\* The output vector as the engine hands it over: flat, all valid, nothing
\* written; mask tells whether its validity buffer is already allocated.
FreshResult(n, width, mask) ==
    [vtype |-> "FLAT",
     mask  |-> mask,
     valid |-> [i \in 1..Capacity(n) |-> TRUE],
     data  |-> [i \in 1..(Capacity(n) * width) |-> Unset]]

Start(n, width, mask, pos) ==
    [res |-> FreshResult(n, width, mask), err |-> NoError, tr |-> <<>>, pos |-> pos, val |-> Unset]

Running(s) == s.err.kind = "none"

\* result.SetVectorType(t)
SetVectorType(s, t) == IF Running(s) THEN [s EXCEPT !.res.vtype = t] ELSE s
\* ConstantVector::SetNull(result, true)
SetNull(s) ==
    IF Running(s) THEN [s EXCEPT !.res.valid[1] = FALSE, !.res.mask = TRUE] ELSE s
\* SetInvalid(i) on the result's own validity mask (allocates the buffer)
SetInvalid(s, i) ==
    IF Running(s) THEN [s EXCEPT !.res.valid[i] = FALSE, !.res.mask = TRUE] ELSE s
\* auto result_validity = FlatVector::Validity(result); result_validity.SetInvalid(i):
\* the mask object is a copy.  It shares the result's buffer when one is
\* allocated; otherwise SetInvalid allocates a buffer only the copy owns.
SetInvalidOnCopy(s, i) == IF s.res.mask THEN SetInvalid(s, i) ELSE s
\* copy of the input validity into the result before a flat loop
SetValidity(s, v) ==
    IF Running(s) THEN [s EXCEPT !.res.valid = v, !.res.mask = @ \/ AnyInvalid(v)] ELSE s
\* result_data[slot] = v   (slot is 1-based)
WriteSlot(s, slot, v) == IF Running(s) THEN [s EXCEPT !.res.data[slot] = v] ELSE s

\* Variant of ValidateStep: a call site that constructs without validating.
ValidateStepSkipped(s, row, arity, p1, p2) == s

\* distribution_traits<DistributionType>::ValidateParameters(...) at a call site;
\* arity is the number of shape parameters of the family.
ValidateStep(s, row, arity, p1, p2) ==
    IF ~Running(s) THEN s
    ELSE [s EXCEPT !.tr = Append(@, Event("validate", row, p1, p2, <<>>)),
                   !.err = IF arity = 2 THEN ValidateParameters(p1, p2)
                           ELSE ValidateParameters1(p1)]

\* DistributionType dist(...)
ConstructStep(s, row, p1, p2) ==
    IF ~Running(s) THEN s
    ELSE [s EXCEPT !.tr = Append(@, Event("construct", row, p1, p2, <<>>))]

\* The value an operation returns: an uninterpreted term over what it was given.
OpValue(op, p1, p2, arg) == <<op, p1, p2, arg>>

\* Variant of OpStep: every operation consumes a value of the generator.
OpStepDrawing(s, row, op, p1, p2, arg) ==
    IF ~Running(s) THEN s
    ELSE [s EXCEPT !.tr = Append(@, Event("op", row, p1, p2, arg)),
                   !.val = IF op = "pair"
                           THEN <<OpValue("low", p1, p2, arg), OpValue("high", p1, p2, arg)>>
                           ELSE OpValue(op, p1, p2, arg),
                   !.pos = @ + 1]

\* op(dist, x), op(result, dist) or dist(rng) on the distribution (p1, p2).
OpStep(s, row, op, p1, p2, arg) ==
    IF ~Running(s) THEN s
    ELSE IF op = "draw"
         THEN [s EXCEPT !.tr = Append(@, Event("op", row, p1, p2, <<s.pos>>)),
                        !.val = OpValue("draw", p1, p2, <<s.pos>>),
                        !.pos = @ + 1]
    ELSE IF op = "pair"
         THEN [s EXCEPT !.tr = Append(@, Event("op", row, p1, p2, arg)),
                        !.val = <<OpValue("low", p1, p2, arg), OpValue("high", p1, p2, arg)>>]
    ELSE [s EXCEPT !.tr = Append(@, Event("op", row, p1, p2, arg)),
                   !.val = OpValue(op, p1, p2, arg)]

(***************************************************************************)
(* The lambdas handed to the engine's executors.  A closure f says whether *)
(* the lambda builds a fresh distribution from its own arguments (fresh),  *)
(* whether it validates them first (validate), how many shape parameters   *)
(* the family has (arity), which operation it applies (op) and, when it    *)
(* captures a distribution built before the loop, its parameters (p1, p2). *)
(* a is the tuple of arguments the executor passes for the row.            *)
(***************************************************************************)
Closure(fresh, validate, arity, op, p1, p2) ==
    [fresh |-> fresh, validate |-> validate, arity |-> arity, op |-> op, p1 |-> p1, p2 |-> p2]

LambdaP1(f, a) == IF f.fresh THEN a[1] ELSE f.p1
LambdaP2(f, a) == IF f.fresh /\ f.arity = 2 THEN a[2] ELSE IF f.fresh THEN NoParam ELSE f.p2
LambdaArg(f, a) == IF f.op = "point" THEN <<a[Len(a)]>> ELSE <<>>

Lambda(s, row, f, a) ==
    LET p1 == LambdaP1(f, a)
        p2 == LambdaP2(f, a)
        s1 == IF f.fresh /\ f.validate THEN ValidateStep(s, row, f.arity, p1, p2) ELSE s
        s2 == IF f.fresh THEN ConstructStep(s1, row, p1, p2) ELSE s1
    IN  OpStep(s2, row, f.op, p1, p2, LambdaArg(f, a))

\* Variant of StoreRow: every row's value lands in the first row's slots.
StoreRowFirst(s, i, op) ==
    IF op = "pair"
    THEN WriteSlot(WriteSlot(s, 1, s.val[1]), 2, s.val[2])
    ELSE WriteSlot(s, 1, s.val)

\* Store the value the lambda returned for row i: one slot, or the two
\* adjacent slots result_data[i * 2], result_data[i * 2 + 1] of a pair.
StoreRow(s, i, op) ==
    IF op = "pair"
    THEN WriteSlot(WriteSlot(s, 2 * i - 1, s.val[1]), 2 * i, s.val[2])
    ELSE WriteSlot(s, i, s.val)

\* One iteration of a row loop: rows[i].active tells whether the loop calls
\* the lambda for row i, rows[i].a with which arguments; mark tells how the
\* loop marks a skipped row: "none" (the validity was set before the loop),
\* "ref" (on the result's mask) or "copy" (on a copy of the result's mask).
RowStep(s, i, row, f, mark) ==
    IF row.active THEN StoreRow(Lambda(s, i, f, row.a), i, f.op)
    ELSE IF mark = "ref" THEN SetInvalid(s, i)
    ELSE IF mark = "copy" THEN SetInvalidOnCopy(s, i)
    ELSE s

RECURSIVE RowLoop(_, _, _, _, _, _)
RowLoop(s, i, n, rows, f, mark) ==
    IF i > n \/ ~Running(s) THEN s
    ELSE RowLoop(RowStep(s, i, rows[i], f, mark), i + 1, n, rows, f, mark)

\* The constant case of an executor: one call of the lambda, or a constant null.
ExecuteConstant(s, anyNull, f, a) ==
    LET s1 == SetVectorType(s, "CONSTANT")
    IN  IF anyNull THEN SetNull(s1)
        ELSE StoreRow(Lambda(s1, 0, f, a), 1, f.op)

\* UnaryExecutor::Execute(input, result, count, fun)
UnaryExecutor(s, input, n, f) ==
    IF IsConstant(input)
    THEN ExecuteConstant(s, ConstantIsNull(input), f, <<input.data[1]>>)
    ELSE LET s1 == SetValidity(SetVectorType(s, "FLAT"),
                               [i \in 1..Capacity(n) |-> IF i <= n THEN input.valid[i] ELSE TRUE])
             rows == [i \in 1..n |-> [active |-> input.valid[i], a |-> <<input.data[i]>>]]
         IN  RowLoop(s1, 1, n, rows, f, "none")

\* Variant of BinaryExecutor: the lambda is called for every row, null or not.
BinaryExecutorAllRows(s, left, right, n, f) ==
    IF IsConstant(left) /\ IsConstant(right)
    THEN ExecuteConstant(s, FALSE, f, <<left.data[1], right.data[1]>>)
    ELSE LET rows == [i \in 1..n |->
                        [active |-> TRUE, a |-> <<Entry(left, i), Entry(right, i)>>]]
         IN  RowLoop(SetVectorType(s, "FLAT"), 1, n, rows, f, "none")

\* BinaryExecutor::Execute(left, right, result, count, fun)
BinaryExecutor(s, left, right, n, f) ==
    IF IsConstant(left) /\ IsConstant(right)
    THEN ExecuteConstant(s, ConstantIsNull(left) \/ ConstantIsNull(right), f,
                         <<left.data[1], right.data[1]>>)
    ELSE IF (IsConstant(left) /\ ConstantIsNull(left)) \/ (IsConstant(right) /\ ConstantIsNull(right))
    THEN SetNull(SetVectorType(s, "CONSTANT"))
    ELSE LET s1 == SetValidity(SetVectorType(s, "FLAT"),
                               [i \in 1..Capacity(n) |->
                                   IF i <= n THEN RowIsValid(left, i) /\ RowIsValid(right, i) ELSE TRUE])
             rows == [i \in 1..n |->
                        [active |-> RowIsValid(left, i) /\ RowIsValid(right, i),
                         a |-> <<Entry(left, i), Entry(right, i)>>]]
         IN  RowLoop(s1, 1, n, rows, f, "none")

\* Variant of TernaryRowIsValid: the evaluation point's validity is not consulted.
TernaryRowIsValidIgnoringPoint(a, b, c, i) == RowIsValid(a, i) /\ RowIsValid(b, i)

\* The per-row test of TernaryExecutor's loop.
TernaryRowIsValid(a, b, c, i) == RowIsValid(a, i) /\ RowIsValid(b, i) /\ RowIsValid(c, i)

\* TernaryExecutor::Execute(a, b, c, result, count, fun)
TernaryExecutor(s, a, b, c, n, f) ==
    IF IsConstant(a) /\ IsConstant(b) /\ IsConstant(c)
    THEN ExecuteConstant(s, ConstantIsNull(a) \/ ConstantIsNull(b) \/ ConstantIsNull(c), f,
                         <<a.data[1], b.data[1], c.data[1]>>)
    ELSE LET s1 == SetVectorType(s, "FLAT")
             checked == ~AllValid(a) \/ ~AllValid(b) \/ ~AllValid(c)
             rows == [i \in 1..n |->
                        [active |-> checked => TernaryRowIsValid(a, b, c, i),
                         a |-> <<Entry(a, i), Entry(b, i), Entry(c, i)>>]]
         IN  RowLoop(s1, 1, n, rows, f, "ref")

\* args.data[k]: duckdb::vector checks the index and throws an InternalException.
HasColumn(chunk, k) == k + 1 <= Len(chunk)
Throw(s, e) == IF Running(s) THEN [s EXCEPT !.err = e] ELSE s

(***************************************************************************)
(* The evaluators of utils.hpp.  chunk is args.data, n is args.size().     *)
(***************************************************************************)

\* Variant of ConstantCase: the value the operation returned is not stored.
ConstantCaseNoStore(s, arity, op, p1, p2, arg) ==
    LET s1 == ConstructStep(ValidateStep(s, 0, arity, p1, p2), 0, p1, p2)
    IN  OpStep(SetVectorType(s1, "CONSTANT"), 0, op, p1, p2, arg)

\* Validate, construct and apply once on the all-constant path.
ConstantCase(s, arity, op, p1, p2, arg) ==
    LET s1 == ConstructStep(ValidateStep(s, 0, arity, p1, p2), 0, p1, p2)
        s2 == OpStep(SetVectorType(s1, "CONSTANT"), 0, op, p1, p2, arg)
    IN  StoreRow(s2, 1, op)

\* Mark the whole output constant-null and return.
ConstantNull(s) == SetNull(SetVectorType(s, "CONSTANT"))

\* Variant of DistributionCallBinaryUnary: without the shape-constant branch,
\* so that constant shapes with a flat evaluation point go through the per-row
\* lambda, which builds a distribution for every row.
DistributionCallBinaryUnaryPerRow(s, chunk, n) ==
    IF IsConstant(chunk[1]) /\ IsConstant(chunk[2]) /\ IsConstant(chunk[3])
    THEN IF ConstantIsNull(chunk[1]) \/ ConstantIsNull(chunk[2]) \/ ConstantIsNull(chunk[3])
         THEN ConstantNull(s)
         ELSE ConstantCase(s, 2, "point", chunk[1].data[1], chunk[2].data[1],
                           <<chunk[3].data[1]>>)
    ELSE TernaryExecutor(s, chunk[1], chunk[2], chunk[3], n,
                         Closure(TRUE, TRUE, 2, "point", 0, NoParam))

DistributionCallBinaryUnary(s, chunk, n) ==
    LET dist_param1_vector == chunk[1]
        dist_param2_vector == chunk[2]
        call_param_vector == chunk[3]
        p1 == dist_param1_vector.data[1]
        p2 == dist_param2_vector.data[1]
    IN  IF IsConstant(dist_param1_vector) /\ IsConstant(dist_param2_vector)
           /\ IsConstant(call_param_vector)
        THEN IF ConstantIsNull(dist_param1_vector) \/ ConstantIsNull(dist_param2_vector)
                \/ ConstantIsNull(call_param_vector)
             THEN ConstantNull(s)
             ELSE ConstantCase(s, 2, "point", p1, p2, <<call_param_vector.data[1]>>)
        ELSE IF IsConstant(dist_param1_vector) /\ IsConstant(dist_param2_vector)
        THEN IF ConstantIsNull(dist_param1_vector) \/ ConstantIsNull(dist_param2_vector)
             THEN ConstantNull(s)
             ELSE UnaryExecutor(ConstructStep(ValidateStep(s, 0, 2, p1, p2), 0, p1, p2),
                                call_param_vector, n,
                                Closure(FALSE, FALSE, 2, "point", p1, p2))
        ELSE TernaryExecutor(s, dist_param1_vector, dist_param2_vector, call_param_vector, n,
                             Closure(TRUE, TRUE, 2, "point", 0, NoParam))

DistributionCallUnaryUnary(s, chunk, n) ==
    IF ~HasColumn(chunk, 2) THEN Throw(s, InternalError)
    ELSE
    LET dist_param1_vector == chunk[1]
        call_param_vector == chunk[3]
        p1 == dist_param1_vector.data[1]
    IN  IF IsConstant(dist_param1_vector) /\ IsConstant(call_param_vector)
        THEN IF ConstantIsNull(dist_param1_vector) \/ ConstantIsNull(call_param_vector)
             THEN ConstantNull(s)
             ELSE ConstantCase(s, 1, "point", p1, NoParam, <<call_param_vector.data[1]>>)
        ELSE IF IsConstant(dist_param1_vector)
        THEN IF ConstantIsNull(dist_param1_vector)
             THEN ConstantNull(s)
             ELSE UnaryExecutor(ConstructStep(ValidateStep(s, 0, 1, p1, NoParam), 0, p1, NoParam),
                                call_param_vector, n,
                                Closure(FALSE, FALSE, 1, "point", p1, NoParam))
        ELSE BinaryExecutor(s, dist_param1_vector, call_param_vector, n,
                            Closure(TRUE, TRUE, 1, "point", 0, NoParam))

\* if (!dist_param1_data.validity.AllValid() || !dist_param1_data.validity.AllValid())
PairLoopChecksValidity(dist_param1_data, dist_param2_data) ==
    ~AllValid(dist_param1_data) \/ ~AllValid(dist_param1_data)

\* The hand-written per-row loops of the pair-valued operations
\* (std::pair<double, double> and std::pair<int64_t, int64_t> are alike).
PairRows(s, dist_param1_data, dist_param2_data, n, arity) ==
    LET checked == PairLoopChecksValidity(dist_param1_data, dist_param2_data)
        rows == [i \in 1..n |->
                   [active |-> checked =>
                                  (RowIsValid(dist_param1_data, i)
                                   /\ (arity = 2 => RowIsValid(dist_param2_data, i))),
                    a |-> IF arity = 2
                          THEN <<Entry(dist_param1_data, i), Entry(dist_param2_data, i)>>
                          ELSE <<Entry(dist_param1_data, i)>>]]
    IN  RowLoop(SetVectorType(s, "FLAT"), 1, n, rows,
                Closure(TRUE, TRUE, arity, "pair", 0, NoParam), "copy")

\* op is "stat" for a scalar statistic and "pair" for a range / support.
DistributionCallBinaryNone(s, chunk, n, op) ==
    LET dist_param1_vector == chunk[1]
        dist_param2_vector == chunk[2]
        p1 == dist_param1_vector.data[1]
        p2 == dist_param2_vector.data[1]
    IN  IF IsConstant(dist_param1_vector) /\ IsConstant(dist_param2_vector)
        THEN IF ConstantIsNull(dist_param1_vector) \/ ConstantIsNull(dist_param2_vector)
             THEN ConstantNull(s)
             ELSE ConstantCase(s, 2, op, p1, p2, <<>>)
        ELSE IF op = "pair"
        THEN PairRows(s, dist_param1_vector, dist_param2_vector, n, 2)
        ELSE BinaryExecutor(s, dist_param1_vector, dist_param2_vector, n,
                            Closure(TRUE, TRUE, 2, "stat", 0, NoParam))

DistributionCallUnaryNone(s, chunk, n, op) ==
    LET dist_param1_vector == chunk[1]
        p1 == dist_param1_vector.data[1]
    IN  IF IsConstant(dist_param1_vector)
        THEN IF ConstantIsNull(dist_param1_vector)
             THEN ConstantNull(s)
             ELSE ConstantCase(s, 1, op, p1, NoParam, <<>>)
        ELSE IF op = "pair"
        THEN PairRows(s, dist_param1_vector, dist_param1_vector, n, 1)
        ELSE UnaryExecutor(s, dist_param1_vector, n,
                           Closure(TRUE, TRUE, 1, "stat", 0, NoParam))

\* for (i < args.size()) results[i] = dist(rng);
RECURSIVE DrawLoop(_, _, _, _, _)
DrawLoop(s, i, n, p1, p2) ==
    IF i > n \/ ~Running(s) THEN s
    ELSE DrawLoop(StoreRow(OpStep(s, i, "draw", p1, p2, <<>>), i, "draw"), i + 1, n, p1, p2)

\* Variant of SampleConstant: the rows are drawn before the parameters are
\* validated.
SampleConstantDrawsFirst(s, n, arity, p1, p2) ==
    LET s1 == DrawLoop(s, 1, n, p1, p2)
        s2 == ConstructStep(ValidateStep(s1, 0, arity, p1, p2), 0, p1, p2)
    IN  IF n = 1 THEN SetVectorType(s2, "CONSTANT") ELSE s2

\* The constant branch of a sampler: validate once, construct once, draw per row.
SampleConstant(s, n, arity, p1, p2) ==
    LET s1 == ConstructStep(ValidateStep(s, 0, arity, p1, p2), 0, p1, p2)
        s2 == DrawLoop(s1, 1, n, p1, p2)
    IN  IF n = 1 THEN SetVectorType(s2, "CONSTANT") ELSE s2

DistributionSampleUnary(s, chunk, n) ==
    LET param1_vector == chunk[1]
    IN  IF IsConstant(param1_vector)
        THEN IF ConstantIsNull(param1_vector)
             THEN ConstantNull(s)
             ELSE SampleConstant(s, n, 1, param1_vector.data[1], NoParam)
        ELSE UnaryExecutor(s, param1_vector, n, Closure(TRUE, TRUE, 1, "draw", 0, NoParam))

DistributionSampleBinary(s, chunk, n) ==
    LET param1_vector == chunk[1]
        param2_vector == chunk[2]
    IN  IF IsConstant(param1_vector) /\ IsConstant(param2_vector)
        THEN IF ConstantIsNull(param1_vector) \/ ConstantIsNull(param2_vector)
             THEN ConstantNull(s)
             ELSE SampleConstant(s, n, 2, param1_vector.data[1], param2_vector.data[1])
        ELSE BinaryExecutor(s, param1_vector, param2_vector, n,
                            Closure(TRUE, TRUE, 2, "draw", 0, NoParam))

\* The registered callbacks built on utils.hpp, by name.
Evaluate(name, chunk, n, mask, pos) ==
    CASE name = "DistributionCallBinaryUnary" ->
            DistributionCallBinaryUnary(Start(n, 1, mask, pos), chunk, n)
      [] name = "DistributionCallUnaryUnary" ->
            DistributionCallUnaryUnary(Start(n, 1, mask, pos), chunk, n)
      [] name = "DistributionCallBinaryNone" ->
            DistributionCallBinaryNone(Start(n, 1, mask, pos), chunk, n, "stat")
      [] name = "DistributionCallBinaryNonePair" ->
            DistributionCallBinaryNone(Start(n, 2, mask, pos), chunk, n, "pair")
      [] name = "DistributionCallUnaryNone" ->
            DistributionCallUnaryNone(Start(n, 1, mask, pos), chunk, n, "stat")
      [] name = "DistributionCallUnaryNonePair" ->
            DistributionCallUnaryNone(Start(n, 2, mask, pos), chunk, n, "pair")
      [] name = "DistributionSampleUnary" ->
            DistributionSampleUnary(Start(n, 1, mask, pos), chunk, n)
      [] name = "DistributionSampleBinary" ->
            DistributionSampleBinary(Start(n, 1, mask, pos), chunk, n)

(***************************************************************************)
(* Process-wide state: the thread-index registry of rng_utils.cpp, the     *)
(* thread_local generators of rng_utils.hpp and the function catalog.      *)
(* rng_utils.hpp defines rng as "static thread_local" in a header, so      *)
(* every translation unit that includes it has a generator of its own per  *)
(* thread.                                                                 *)
(***************************************************************************)
GLOBAL_SEED == 12345

Threads == 1..MaxThreads
NoThread == 0
\* Translation units that include rng_utils.hpp and draw from rng.
Units == {"distribution_binomial.cpp", "distribution_gamma.cpp"}
\* The functions that register scalar functions.
Loaders == {"Load_binomial_distribution", "Load_gamma_distribution", "LoadInternal"}

\* std::seed_seq seq {GLOBAL_SEED, tidx}
SeedSeq(seed, tidx) == <<"seed_seq", seed, tidx>>
\* seq.generate(seed_data.begin(), seed_data.end()) into n 32-bit words:
\* word i is a function of the sequence and of n.
Generate(seq, n) == [i \in 1..n |-> <<"word", seq, n, i>>]

\* Variant of Seeded: the generator is not kept for the thread's later calls.
SeededNotKept(g, word) == [made |-> FALSE, seed |-> word, pos |-> 0, seedings |-> g.seedings + 1]
\* Variant of GeneratorOf: one generator per unit, shared by all threads.
GeneratorOfShared(t, u) == <<1, u>>

\* A generator that does not exist yet, and one seeded by local_rng.seed(word).
NoGenerator == [made |-> FALSE, seed |-> <<>>, pos |-> 0, seedings |-> 0]
Seeded(g, word) == [made |-> TRUE, seed |-> word, pos |-> 0, seedings |-> g.seedings + 1]

\* The storage of rng for thread t in translation unit u (static thread_local).
GeneratorOf(t, u) == <<t, u>>

NoFrame == [unit |-> "", n |-> 0, idx |-> 0]

ProcessInit ==
    /\ thread_id_map = <<>>
    /\ next_thread_index = 0
    /\ thread_id_map_mutex = NoThread
    /\ pc = [t \in Threads |-> "idle"]
    /\ frame = [t \in Threads |-> NoFrame]
    /\ rng = [g \in Threads \X Units |-> NoGenerator]
    /\ returned = [t \in Threads |-> <<>>]
    /\ mutations = [t \in Threads |-> 0]
    /\ samples = [t \in Threads |-> <<>>]
    /\ exited = [t \in Threads |-> <<>>]
    /\ catalog = {}
    /\ loaded = [l \in Loaders |-> 0]

(***************************************************************************)
(* State machine: the host engine calls one registered function at a time  *)
(* on the calling thread and takes the output back.                        *)
(***************************************************************************)
Rows == 0..MaxRows

\* Input columns of the functions that go through the engine's executors.
TrialsCols(n) == PlainCols(TrialsVals, 0, n)
ProbCols(n) == PlainCols(ProbVals, Num(0), n)
XCols(n) == PlainCols(XVals, 0, n)

Init ==
    /\ phase = "idle"
    /\ evaluator = "none"
    /\ args = <<>>
    /\ count = 0
    /\ result = FreshResult(0, 1, FALSE)
    /\ error = NoError
    /\ trace = <<>>
    /\ rngPos = 0
    /\ ProcessInit

\* The call ended in state s of the handler.
Finish(name, chunk, n, s) ==
    /\ phase' = "done"
    /\ evaluator' = name
    /\ args' = chunk
    /\ count' = n
    /\ result' = s.res
    /\ error' = s.err
    /\ trace' = s.tr
    /\ rngPos' = s.pos
    /\ UNCHANGED processVars

CallBinaryUnary ==
    /\ phase = "idle"
    /\ \E n \in Rows : \E c1 \in TrialsCols(n), c2 \in ProbCols(n), cx \in XCols(n) :
          Finish("DistributionCallBinaryUnary", <<c1, c2, cx>>, n,
                 Evaluate("DistributionCallBinaryUnary", <<c1, c2, cx>>, n, FALSE, rngPos))

\* The template reads args.data[0] and args.data[2]; it is handed the two
\* columns of a one-parameter function, or three columns.
CallUnaryUnary ==
    /\ phase = "idle"
    /\ \E n \in Rows : \E c1 \in TrialsCols(n), cx \in XCols(n) :
          \E chunk \in {<<c1, cx>>} \cup {<<c1, c, cx>> : c \in XCols(n)} :
             Finish("DistributionCallUnaryUnary", chunk, n,
                    Evaluate("DistributionCallUnaryUnary", chunk, n, FALSE, rngPos))

CallBinaryNoneScalar ==
    /\ phase = "idle"
    /\ \E n \in Rows : \E c1 \in TrialsCols(n), c2 \in ProbCols(n) :
          Finish("DistributionCallBinaryNone", <<c1, c2>>, n,
                 Evaluate("DistributionCallBinaryNone", <<c1, c2>>, n, FALSE, rngPos))

CallBinaryNonePair ==
    /\ phase = "idle"
    /\ \E n \in Rows : \E c1 \in RawCols(TrialsVals, n), c2 \in RawCols(ProbVals, n) :
          \E mask \in BOOLEAN :
             Finish("DistributionCallBinaryNonePair", <<c1, c2>>, n,
                    Evaluate("DistributionCallBinaryNonePair", <<c1, c2>>, n, mask, rngPos))

CallUnaryNoneScalar ==
    /\ phase = "idle"
    /\ \E n \in Rows : \E c1 \in TrialsCols(n) :
          Finish("DistributionCallUnaryNone", <<c1>>, n,
                 Evaluate("DistributionCallUnaryNone", <<c1>>, n, FALSE, rngPos))

CallUnaryNonePair ==
    /\ phase = "idle"
    /\ \E n \in Rows : \E c1 \in RawCols(TrialsVals, n) : \E mask \in BOOLEAN :
          Finish("DistributionCallUnaryNonePair", <<c1>>, n,
                 Evaluate("DistributionCallUnaryNonePair", <<c1>>, n, mask, rngPos))

CallSampleUnary ==
    /\ phase = "idle"
    /\ \E n \in Rows : \E c1 \in TrialsCols(n) :
          LET s == Evaluate("DistributionSampleUnary", <<c1>>, n, FALSE, rngPos)
          IN  /\ s.pos <= MaxDraws
              /\ Finish("DistributionSampleUnary", <<c1>>, n, s)

CallSampleBinary ==
    /\ phase = "idle"
    /\ \E n \in Rows : \E c1 \in TrialsCols(n), c2 \in ProbCols(n) :
          LET s == Evaluate("DistributionSampleBinary", <<c1, c2>>, n, FALSE, rngPos)
          IN  /\ s.pos <= MaxDraws
              /\ Finish("DistributionSampleBinary", <<c1, c2>>, n, s)

\* The engine takes the output (or the exception); the generator keeps its state.
ReturnToHost ==
    /\ phase = "done"
    /\ phase' = "idle"
    /\ evaluator' = "none"
    /\ args' = <<>>
    /\ count' = 0
    /\ result' = FreshResult(0, 1, FALSE)
    /\ error' = NoError
    /\ trace' = <<>>
    /\ UNCHANGED rngPos
    /\ UNCHANGED processVars

Next ==
    \/ CallBinaryUnary
    \/ CallUnaryUnary
    \/ CallBinaryNoneScalar
    \/ CallBinaryNonePair
    \/ CallUnaryNoneScalar
    \/ CallUnaryNonePair
    \/ CallSampleUnary
    \/ CallSampleBinary
    \/ ReturnToHost

Spec == Init /\ [][Next]_vars

(***************************************************************************)
(* The older evaluators of quack_extension.cpp and                         *)
(* distribution_exponential.cpp.  They take double parameters and do not   *)
(* validate them; what the math library does with a parameter outside its  *)
(* domain is not modelled, the trace records the construction.             *)
(***************************************************************************)
TwoParameterDistributionFunc(s, chunk, n) ==
    LET param1_vector == chunk[1]
        param2_vector == chunk[2]
        x_vector == chunk[3]
        param1 == param1_vector.data[1]
        param2 == param2_vector.data[1]
        bothConstant == IsConstant(param1_vector) /\ IsConstant(param2_vector)
        s1 == IF bothConstant
              THEN UnaryExecutor(ConstructStep(s, 0, param1, param2), x_vector, n,
                                 Closure(FALSE, FALSE, 2, "point", param1, param2))
              ELSE s
    IN  IF bothConstant /\ (ConstantIsNull(param1_vector) \/ ConstantIsNull(param2_vector))
        THEN ConstantNull(s)
        ELSE TernaryExecutor(s1, param1_vector, param2_vector, x_vector, n,
                             Closure(TRUE, FALSE, 2, "point", 0, NoParam))

SingleParameterDistributionFunc(s, chunk, n) ==
    LET param_vector == chunk[1]
        x_vector == chunk[2]
        param == param_vector.data[1]
    IN  IF IsConstant(param_vector)
        THEN IF ConstantIsNull(param_vector)
             THEN ConstantNull(s)
             ELSE UnaryExecutor(ConstructStep(s, 0, param, NoParam), x_vector, n,
                                Closure(FALSE, FALSE, 1, "point", param, NoParam))
        ELSE BinaryExecutor(s, param_vector, x_vector, n,
                            Closure(TRUE, FALSE, 1, "point", 0, NoParam))

SingleParameterStatisticFunc(s, chunk, n) ==
    LET param_vector == chunk[1]
        param == param_vector.data[1]
    IN  IF IsConstant(param_vector)
        THEN IF ConstantIsNull(param_vector)
             THEN ConstantNull(s)
             ELSE LET s1 == OpStep(ConstructStep(s, 0, param, NoParam), 0, "stat", param, NoParam, <<>>)
                  IN  StoreRow(SetVectorType(s1, "CONSTANT"), 1, "stat")
        ELSE UnaryExecutor(s, param_vector, n, Closure(TRUE, FALSE, 1, "stat", 0, NoParam))

NormalRandFunc(s, chunk, n) ==
    BinaryExecutor(s, chunk[1], chunk[2], n, Closure(TRUE, FALSE, 2, "draw", 0, NoParam))

BernoulliSampleFunc(s, chunk, n) ==
    UnaryExecutor(s, chunk[1], n, Closure(TRUE, FALSE, 1, "draw", 0, NoParam))

CallTwoParameterDistributionFunc ==
    /\ phase = "idle"
    /\ \E n \in Rows : \E c1 \in TrialsCols(n), c2 \in ProbCols(n), cx \in XCols(n) :
          Finish("TwoParameterDistributionFunc", <<c1, c2, cx>>, n,
                 TwoParameterDistributionFunc(Start(n, 1, FALSE, rngPos), <<c1, c2, cx>>, n))

CallSingleParameterDistributionFunc ==
    /\ phase = "idle"
    /\ \E n \in Rows : \E c1 \in TrialsCols(n), cx \in XCols(n) :
          Finish("SingleParameterDistributionFunc", <<c1, cx>>, n,
                 SingleParameterDistributionFunc(Start(n, 1, FALSE, rngPos), <<c1, cx>>, n))

CallSingleParameterStatisticFunc ==
    /\ phase = "idle"
    /\ \E n \in Rows : \E c1 \in TrialsCols(n) :
          Finish("SingleParameterStatisticFunc", <<c1>>, n,
                 SingleParameterStatisticFunc(Start(n, 1, FALSE, rngPos), <<c1>>, n))

CallNormalRandFunc ==
    /\ phase = "idle"
    /\ \E n \in Rows : \E c1 \in TrialsCols(n), c2 \in ProbCols(n) :
          LET s == NormalRandFunc(Start(n, 1, FALSE, rngPos), <<c1, c2>>, n)
          IN  /\ s.pos <= MaxDraws
              /\ Finish("NormalRandFunc", <<c1, c2>>, n, s)

CallBernoulliSampleFunc ==
    /\ phase = "idle"
    /\ \E n \in Rows : \E c1 \in TrialsCols(n) :
          LET s == BernoulliSampleFunc(Start(n, 1, FALSE, rngPos), <<c1>>, n)
          IN  /\ s.pos <= MaxDraws
              /\ Finish("BernoulliSampleFunc", <<c1>>, n, s)

NextLegacy ==
    \/ CallTwoParameterDistributionFunc
    \/ CallSingleParameterDistributionFunc
    \/ CallSingleParameterStatisticFunc
    \/ CallNormalRandFunc
    \/ CallBernoulliSampleFunc
    \/ ReturnToHost

SpecLegacy == Init /\ [][NextLegacy]_vars

(***************************************************************************)
(* ValidateParameters of the binomial family as a function of its          *)
(* arguments: the arguments are drawn in the initial state.                *)
(***************************************************************************)
\* Trial counts explored: -MaxTrials .. MaxTrials.
MaxTrials == 3
\* Probabilities explored: k / 2 for k in -MaxProbHalves .. MaxProbHalves, and NaN.
MaxProbHalves == 4

TrialsRange == (0 - MaxTrials)..MaxTrials
ProbRange == {Ratio(k, 2) : k \in (0 - MaxProbHalves)..MaxProbHalves} \cup {NaN}

InitValidate ==
    /\ phase = "pending"
    /\ evaluator = "ValidateParameters"
    /\ args \in TrialsRange \X ProbRange
    /\ count = 0
    /\ result = FreshResult(0, 1, FALSE)
    /\ error = NoError
    /\ trace = <<>>
    /\ rngPos = 0
    /\ ProcessInit

ApplyValidateParameters ==
    /\ phase = "pending"
    /\ phase' = "done"
    /\ error' = ValidateParameters(args[1], args[2])
    /\ UNCHANGED <<evaluator, args, count, result, trace, rngPos>>
    /\ UNCHANGED processVars

NextValidate == ApplyValidateParameters

SpecValidate == InitValidate /\ [][NextValidate]_vars

(***************************************************************************)
(* Threads.  A sampling call in translation unit u on thread t uses that   *)
(* unit's rng of the thread.  The first use runs rng's initializer:        *)
(* get_thread_index() under the registry mutex, then seed_seq and seed.    *)
(* get_thread_index is modelled statement by statement; the mutex makes    *)
(* its body a critical section.                                            *)
(***************************************************************************)
\* The batch of the sampling calls explored here: constant valid parameters.
SampleBatch ==
    <<Column("CONSTANT", FALSE, <<TRUE>>, <<1>>),
      Column("CONSTANT", FALSE, <<TRUE>>, <<Num(1)>>)>>

\* The values of a sampling call of n rows on generator g: what dist(rng)
\* returns depends on the generator's seed and position.
SampleValues(g, n) ==
    LET s == Evaluate("DistributionSampleBinary", SampleBatch, n, FALSE, g.pos)
    IN  [i \in 1..n |-> <<g.seed, s.res.data[i]>>]
SampleEnd(g, n) == Evaluate("DistributionSampleBinary", SampleBatch, n, FALSE, g.pos).pos

\* DistributionSampleBinary on thread t in unit u, once rng exists.
SampleBody(t, u, n) ==
    LET k == GeneratorOf(t, u)
        g == rng[k]
    IN  /\ SampleEnd(g, n) <= MaxSampled
        /\ rng' = [rng EXCEPT ![k].pos = SampleEnd(g, n)]
        /\ samples' = [samples EXCEPT ![t] = Append(@, [unit |-> u, n |-> n, vals |-> SampleValues(g, n)])]

\* Variant of MutexFree: the lock excludes nobody.
MutexIgnored == TRUE
\* std::lock_guard<std::mutex> lock(thread_id_map_mutex) can be taken.
MutexFree == thread_id_map_mutex = NoThread

\* Variant of Registered: the lookup never finds the thread.
RegisteredNever(t) == FALSE
\* it != thread_id_map.end() for tid = std::this_thread::get_id()
Registered(t) == t \in DOMAIN thread_id_map

\* Rows the threads have sampled or are about to sample, over all calls.
Sampled ==
    Cardinality({tki \in Threads \X (1..MaxSampled) \X (1..MaxSampled) :
                    /\ tki[2] <= Len(samples[tki[1]])
                    /\ tki[3] <= samples[tki[1]][tki[2]].n})
InFlight == Cardinality({tk \in Threads \X (1..MaxSampled) : tk[2] <= frame[tk[1]].n})

\* A sampling call begins on thread t in unit u over n rows; the threads
\* sample at most MaxSampled rows in all.
StartSample(t, u, n) ==
    /\ pc[t] = "idle"
    /\ Sampled + InFlight + n <= MaxSampled
    /\ IF rng[GeneratorOf(t, u)].made
       THEN /\ SampleBody(t, u, n)
            /\ UNCHANGED <<pc, frame>>
       ELSE /\ pc' = [pc EXCEPT ![t] = "enter"]
            /\ frame' = [frame EXCEPT ![t] = [unit |-> u, n |-> n, idx |-> 0]]
            /\ UNCHANGED <<rng, samples>>
    /\ UNCHANGED <<callVars, registryVars, returned, mutations, catalogVars, exited>>

\* get_thread_index: std::lock_guard<std::mutex> lock(thread_id_map_mutex);
Lock(t) ==
    /\ pc[t] = "enter"
    /\ MutexFree
    /\ thread_id_map_mutex' = t
    /\ pc' = [pc EXCEPT ![t] = "find"]
    /\ UNCHANGED <<callVars, thread_id_map, next_thread_index, frame, rng, returned,
                   mutations, samples, catalogVars, exited>>

\* auto it = thread_id_map.find(tid); if (it == thread_id_map.end()) ... return it->second;
Find(t) ==
    /\ pc[t] = "find"
    /\ IF Registered(t)
       THEN /\ frame' = [frame EXCEPT ![t].idx = thread_id_map[t]]
            /\ pc' = [pc EXCEPT ![t] = "unlock"]
       ELSE /\ pc' = [pc EXCEPT ![t] = "read"]
            /\ UNCHANGED frame
    /\ UNCHANGED <<callVars, registryVars, rng, returned, mutations, samples, catalogVars, exited>>

\* unsigned int idx = next_thread_index++;  (the read)
ReadNext(t) ==
    /\ pc[t] = "read"
    /\ frame' = [frame EXCEPT ![t].idx = next_thread_index]
    /\ pc' = [pc EXCEPT ![t] = "incr"]
    /\ UNCHANGED <<callVars, registryVars, rng, returned, mutations, samples, catalogVars, exited>>

\* unsigned int idx = next_thread_index++;  (the write; unsigned int wraps at 2^32)
Increment(t) ==
    /\ pc[t] = "incr"
    /\ next_thread_index' = frame[t].idx + 1
    /\ pc' = [pc EXCEPT ![t] = "insert"]
    /\ UNCHANGED <<callVars, thread_id_map, thread_id_map_mutex, frame, rng, returned,
                   mutations, samples, catalogVars, exited>>

\* thread_id_map[tid] = idx;
Insert(t) ==
    /\ pc[t] = "insert"
    /\ thread_id_map' = (t :> frame[t].idx) @@ thread_id_map
    /\ mutations' = [mutations EXCEPT ![t] = @ + 1]
    /\ pc' = [pc EXCEPT ![t] = "unlock"]
    /\ UNCHANGED <<callVars, next_thread_index, thread_id_map_mutex, frame, rng, returned,
                   samples, catalogVars, exited>>

\* Variant of Unlock: the function returns with the mutex still held.
UnlockKeepsMutex(t) ==
    /\ pc[t] = "unlock"
    /\ returned' = [returned EXCEPT ![t] = Append(@, frame[t].idx)]
    /\ pc' = [pc EXCEPT ![t] = "seed"]
    /\ UNCHANGED <<callVars, registryVars, frame, rng, mutations, samples, catalogVars, exited>>

\* return idx; and the lock_guard's destructor releases the mutex.
Unlock(t) ==
    /\ pc[t] = "unlock"
    /\ thread_id_map_mutex' = NoThread
    /\ returned' = [returned EXCEPT ![t] = Append(@, frame[t].idx)]
    /\ pc' = [pc EXCEPT ![t] = "seed"]
    /\ UNCHANGED <<callVars, thread_id_map, next_thread_index, frame, rng, mutations,
                   samples, catalogVars, exited>>

\* seed_seq seq {GLOBAL_SEED, tidx}; seq.generate(1 word); local_rng.seed(seed_data[0]);
Seed(t) ==
    /\ pc[t] = "seed"
    /\ LET k == GeneratorOf(t, frame[t].unit)
           word == Generate(SeedSeq(GLOBAL_SEED, frame[t].idx), 1)[1]
       IN  rng' = [rng EXCEPT ![k] = Seeded(@, word)]
    /\ pc' = [pc EXCEPT ![t] = "draw"]
    /\ UNCHANGED <<callVars, registryVars, frame, returned, mutations, samples, catalogVars, exited>>

\* The sampling call that initialized rng goes on to draw.
Draw(t) ==
    /\ pc[t] = "draw"
    /\ SampleBody(t, frame[t].unit, frame[t].n)
    /\ pc' = [pc EXCEPT ![t] = "idle"]
    /\ frame' = [frame EXCEPT ![t] = NoFrame]
    /\ UNCHANGED <<callVars, registryVars, returned, mutations, catalogVars, exited>>

NextThreads ==
    \E t \in Threads :
        \/ \E u \in Units, n \in 1..MaxRows : StartSample(t, u, n)
        \/ Lock(t)
        \/ Find(t)
        \/ ReadNext(t)
        \/ Increment(t)
        \/ Insert(t)
        \/ Unlock(t)
        \/ Seed(t)
        \/ Draw(t)

SpecThreads == Init /\ [][NextThreads]_vars

\* Fair scheduling: a thread inside get_thread_index keeps running, and a
\* thread that finds the mutex free again and again eventually acquires it.
InCriticalSection(t) == Find(t) \/ ReadNext(t) \/ Increment(t) \/ Insert(t) \/ Unlock(t)
Fairness == \A t \in Threads : SF_vars(Lock(t)) /\ WF_vars(InCriticalSection(t))

SpecThreadsFair == SpecThreads /\ Fairness

(***************************************************************************)
(* Thread lifetimes.  Threads are known to the registry by their           *)
(* std::thread::id.  When a thread exits its thread_local generators are   *)
(* destroyed; nothing in rng_utils.cpp removes its registry entry.  The    *)
(* id of a thread that has exited may be given to a thread that starts     *)
(* later: a later thread runs either under an id never used before or      *)
(* under the id of an exited thread.                                       *)
(***************************************************************************)
\* The seeds of the generators the thread with id t has.
SeedsOf(t) == {rng[<<t, u>>].seed : u \in {v \in Units : rng[<<t, v>>].made}}

TotalExits ==
    Cardinality({tk \in Threads \X (1..MaxExits) : tk[2] <= Len(exited[tk[1]])})

\* The thread with id t exits, outside any call; a thread that starts later
\* under the same id begins with no generator and no history.
Exit(t) ==
    /\ pc[t] = "idle"
    /\ TotalExits < MaxExits
    /\ exited' = [exited EXCEPT ![t] =
                     Append(@, [returned |-> returned[t], seeds |-> SeedsOf(t)])]
    /\ rng' = [g \in DOMAIN rng |-> IF g[1] = t THEN NoGenerator ELSE rng[g]]
    /\ returned' = [returned EXCEPT ![t] = <<>>]
    /\ mutations' = [mutations EXCEPT ![t] = 0]
    /\ samples' = [samples EXCEPT ![t] = <<>>]
    /\ UNCHANGED <<callVars, registryVars, pc, frame, catalogVars>>

NextLifetime ==
    \/ NextThreads
    \/ \E t \in Threads : Exit(t)

SpecLifetime == Init /\ [][NextLifetime]_vars

(***************************************************************************)
(* Registration.  Each loader registers its functions one after another;   *)
(* a registration builds a ScalarFunction and adds it to the catalog of    *)
(* the database instance.  Load_binomial_distribution and                  *)
(* Load_gamma_distribution run in this order from the extension's          *)
(* LoadInternal; LoadInternal of quack_extension.cpp is the entry point of *)
(* a separate extension and may run at any time relative to them.          *)
(***************************************************************************)
\* The ScalarFunction constructor's stability when the caller passes none.
DefaultStability == "CONSISTENT"
ScalarFunction(name, return_type, function, stability) ==
    [name |-> name, return_type |-> return_type, function |-> function, stability |-> stability]

\* Variant of RegisterFunction: the stability argument is dropped.
RegisterFunctionDefaultStability(prefix, name, stability, result_type, func) ==
    ScalarFunction(<<"dist", prefix, name>>, result_type, func, DefaultStability)
\* utils.hpp RegisterFunction<DistributionType>: final_name is
\* "dist_" + prefix + "_" + name, kept as its three parts.
RegisterFunction(prefix, name, stability, result_type, func) ==
    ScalarFunction(<<"dist", prefix, name>>, result_type, func, stability)

\* The helpers of quack_extension.cpp.
CreateThreeParameterDistributionFunction(name, func) ==
    ScalarFunction(<<name>>, "DOUBLE", func, DefaultStability)
CreateBinaryFunction(name, func) == ScalarFunction(<<name>>, "DOUBLE", func, "VOLATILE")
CreateTwoParameterDistributionFunction(name, func) ==
    ScalarFunction(<<name>>, "DOUBLE", func, DefaultStability)
CreateUnaryFunction(name, func) == ScalarFunction(<<name>>, "DOUBLE", func, "VOLATILE")

\* A registration statement of a loader, and the function it registers.
Site(via, name, stability, result_type, func) ==
    [via |-> via, name |-> name, stability |-> stability, result_type |-> result_type, func |-> func]
Registration(prefix, site) ==
    CASE site.via = "REGISTER" ->
            RegisterFunction(prefix, site.name, site.stability, site.result_type, site.func)
      [] site.via = "REGISTER_NORMAL_FUNC" ->
            CreateThreeParameterDistributionFunction(site.name, site.func)
      [] site.via = "RegisterSamplingFunction" -> CreateBinaryFunction(site.name, site.func)
      [] site.via = "REGISTER_BERNOULLI_FUNC" ->
            CreateTwoParameterDistributionFunction(site.name, site.func)
      [] site.via = "RegisterSingleParamSamplingFunction" ->
            CreateUnaryFunction(site.name, site.func)

\* make_unary and make_none of the distribution files, by the template they call.
make_unary == "DistributionCallBinaryUnary"
make_none == "DistributionCallBinaryNone"

\* distribution_binomial.cpp, Load_binomial_distribution.
BinomialSites ==
    << Site("REGISTER", "sample", "VOLATILE", "BIGINT", "DistributionSampleBinary"),
       Site("REGISTER", "pdf", "CONSISTENT", "DOUBLE", make_unary),
       Site("REGISTER", "log_pdf", "CONSISTENT", "DOUBLE", make_unary),
       Site("REGISTER", "cdf", "CONSISTENT", "DOUBLE", make_unary),
       Site("REGISTER", "cdf_complement", "CONSISTENT", "DOUBLE", make_unary),
       Site("REGISTER", "log_cdf", "CONSISTENT", "DOUBLE", make_unary),
       Site("REGISTER", "log_cdf_complement", "CONSISTENT", "DOUBLE", make_unary),
       Site("REGISTER", "quantile", "CONSISTENT", "BIGINT", make_unary),
       Site("REGISTER", "quantile_complement", "CONSISTENT", "BIGINT", make_unary),
       Site("REGISTER", "hazard", "CONSISTENT", "DOUBLE", make_unary),
       Site("REGISTER", "chf", "CONSISTENT", "DOUBLE", make_unary),
       Site("REGISTER", "variance", "CONSISTENT", "DOUBLE", make_none),
       Site("REGISTER", "mode", "CONSISTENT", "DOUBLE", make_none),
       Site("REGISTER", "median", "CONSISTENT", "DOUBLE", make_none),
       Site("REGISTER", "skewness", "CONSISTENT", "DOUBLE", make_none),
       Site("REGISTER", "kurtosis", "CONSISTENT", "DOUBLE", make_none),
       Site("REGISTER", "kurtosis_excess", "CONSISTENT", "DOUBLE", make_none),
       Site("REGISTER", "range", "CONSISTENT", "ARRAY(DOUBLE, 2)", make_none),
       Site("REGISTER", "support", "CONSISTENT", "ARRAY(DOUBLE, 2)", make_none) >>

\* distribution_gamma.cpp, Load_gamma_distribution.
GammaSites ==
    << Site("REGISTER", "sample", "VOLATILE", "DOUBLE", "DistributionSampleBinary"),
       Site("REGISTER", "pdf", "CONSISTENT", "DOUBLE", make_unary),
       Site("REGISTER", "log_pdf", "CONSISTENT", "DOUBLE", make_unary),
       Site("REGISTER", "cdf", "CONSISTENT", "DOUBLE", make_unary),
       Site("REGISTER", "cdf_complement", "CONSISTENT", "DOUBLE", make_unary),
       Site("REGISTER", "log_cdf", "CONSISTENT", "DOUBLE", make_unary),
       Site("REGISTER", "log_cdf_complement", "CONSISTENT", "DOUBLE", make_unary),
       Site("REGISTER", "quantile", "CONSISTENT", "DOUBLE", make_unary),
       Site("REGISTER", "quantile_complement", "CONSISTENT", "DOUBLE", make_unary),
       Site("REGISTER", "hazard", "CONSISTENT", "DOUBLE", make_unary),
       Site("REGISTER", "chf", "CONSISTENT", "DOUBLE", make_unary),
       Site("REGISTER", "mean", "CONSISTENT", "DOUBLE", make_none),
       Site("REGISTER", "stddev", "CONSISTENT", "DOUBLE", make_none),
       Site("REGISTER", "variance", "CONSISTENT", "DOUBLE", make_none),
       Site("REGISTER", "mode", "CONSISTENT", "DOUBLE", make_none),
       Site("REGISTER", "median", "CONSISTENT", "DOUBLE", make_none),
       Site("REGISTER", "skewness", "CONSISTENT", "DOUBLE", make_none),
       Site("REGISTER", "kurtosis", "CONSISTENT", "DOUBLE", make_none),
       Site("REGISTER", "kurtosis_excess", "CONSISTENT", "DOUBLE", make_none),
       Site("REGISTER", "range", "CONSISTENT", "ARRAY(DOUBLE, 2)", make_none),
       Site("REGISTER", "support", "CONSISTENT", "ARRAY(DOUBLE, 2)", make_none) >>

\* quack_extension.cpp, LoadInternal; these helpers take no stability and no
\* result type.  The Normal...Func callbacks are TwoParameterDistributionFunc,
\* the Bernoulli...Func callbacks SingleParameterDistributionFunc.
QuackSites ==
    << Site("REGISTER_NORMAL_FUNC", "normal_pdf", "", "", "TwoParameterDistributionFunc"),
       Site("REGISTER_NORMAL_FUNC", "normal_log_pdf", "", "", "TwoParameterDistributionFunc"),
       Site("REGISTER_NORMAL_FUNC", "normal_cdf", "", "", "TwoParameterDistributionFunc"),
       Site("REGISTER_NORMAL_FUNC", "normal_cdf_complement", "", "", "TwoParameterDistributionFunc"),
       Site("REGISTER_NORMAL_FUNC", "normal_quantile", "", "", "TwoParameterDistributionFunc"),
       Site("REGISTER_NORMAL_FUNC", "normal_quantile_complement", "", "", "TwoParameterDistributionFunc"),
       Site("RegisterSamplingFunction", "normal_sample", "", "", "NormalRandFunc"),
       Site("REGISTER_BERNOULLI_FUNC", "bernoulli_pdf", "", "", "SingleParameterDistributionFunc"),
       Site("REGISTER_BERNOULLI_FUNC", "bernoulli_cdf", "", "", "SingleParameterDistributionFunc"),
       Site("REGISTER_BERNOULLI_FUNC", "bernoulli_quantile", "", "", "SingleParameterDistributionFunc"),
       Site("REGISTER_BERNOULLI_FUNC", "bernoulli_log_pdf", "", "", "SingleParameterDistributionFunc"),
       Site("REGISTER_BERNOULLI_FUNC", "bernoulli_log_cdf", "", "", "SingleParameterDistributionFunc"),
       Site("REGISTER_BERNOULLI_FUNC", "bernoulli_cdf_complement", "", "", "SingleParameterDistributionFunc"),
       Site("REGISTER_BERNOULLI_FUNC", "bernoulli_log_cdf_complement", "", "", "SingleParameterDistributionFunc"),
       Site("REGISTER_BERNOULLI_FUNC", "bernoulli_quantile_complement", "", "", "SingleParameterDistributionFunc"),
       Site("RegisterSingleParamSamplingFunction", "bernoulli_sample", "", "", "BernoulliSampleFunc") >>

Sites(l) ==
    CASE l = "Load_binomial_distribution" -> BinomialSites
      [] l = "Load_gamma_distribution" -> GammaSites
      [] l = "LoadInternal" -> QuackSites
Prefix(l) ==
    CASE l = "Load_binomial_distribution" -> "binomial"
      [] l = "Load_gamma_distribution" -> "gamma"
      [] l = "LoadInternal" -> ""

\* DISTRIBUTION::value_type: both distribution files instantiate the
\* boost::math distribution over double.
value_type(prefix) == "DOUBLE"
\* The ReturnType argument of the sampler's instantiation:
\* DistributionSampleBinary<SAMPLE_DISTRIBUTION, int64_t> for the binomial,
\* DistributionSampleBinary<SAMPLE_DISTRIBUTION, double> for the gamma.
SampleReturnType(prefix) == IF prefix = "binomial" THEN "BIGINT" ELSE "DOUBLE"
\* boost::math::range and boost::math::support return std::pair<double, double>,
\* which the evaluator writes into the double children of the array.
PairOperations == {"range", "support"}

\* The element type the callback of the registered function f writes into
\* the result vector (GetData<ReturnType>, Execute<..., ReturnType>).
ReturnType(f) ==
    CASE f.function = "DistributionSampleBinary" -> SampleReturnType(f.name[2])
      [] f.function = make_unary -> value_type(f.name[2])
      [] f.function = make_none ->
            IF f.name[3] \in PairOperations THEN "ARRAY(DOUBLE, 2)" ELSE value_type(f.name[2])
      [] OTHER -> "DOUBLE"


\* Loader l has returned.
Loaded(l) == loaded[l] = Len(Sites(l))

\* Loader l executes its next registration statement.
Register(l) ==
    /\ ~Loaded(l)
    /\ l = "Load_gamma_distribution" => Loaded("Load_binomial_distribution")
    /\ catalog' = catalog \cup {Registration(Prefix(l), Sites(l)[loaded[l] + 1])}
    /\ loaded' = [loaded EXCEPT ![l] = @ + 1]
    /\ UNCHANGED <<callVars, registryVars, threadVars>>

NextCatalog == \E l \in Loaders : Register(l)

SpecCatalog == Init /\ [][NextCatalog]_vars


(***************************************************************************)
(* Vocabulary of the properties: what a finished call looks like.          *)
(***************************************************************************)
ScalarPointEvaluators == {"DistributionCallBinaryUnary", "DistributionCallUnaryUnary"}
PairEvaluators == {"DistributionCallBinaryNonePair", "DistributionCallUnaryNonePair"}
ClosedFormEvaluators ==
    ScalarPointEvaluators \cup PairEvaluators
    \cup {"DistributionCallBinaryNone", "DistributionCallUnaryNone"}
Samplers == {"DistributionSampleUnary", "DistributionSampleBinary"}
LegacySamplers == {"NormalRandFunc", "BernoulliSampleFunc"}
LegacyEvaluators ==
    {"TwoParameterDistributionFunc", "SingleParameterDistributionFunc",
     "SingleParameterStatisticFunc"}
BinaryFamilies ==
    {"DistributionCallBinaryUnary", "DistributionCallBinaryNone",
     "DistributionCallBinaryNonePair", "DistributionSampleBinary",
     "TwoParameterDistributionFunc", "NormalRandFunc"}

Done == phase = "done"
Returned == phase = "done" /\ error.kind = "none"

\* Number of shape parameters of the family the finished call evaluated.
ShapeArity == IF evaluator \in BinaryFamilies THEN 2 ELSE 1
ShapeColumns == 1..ShapeArity
\* The evaluation point is the last column of the batch.
HasPoint ==
    evaluator \in ScalarPointEvaluators
                  \cup {"TwoParameterDistributionFunc", "SingleParameterDistributionFunc"}
Contributing == ShapeColumns \cup (IF HasPoint THEN {Len(args)} ELSE {})
InputNullAt(r) == \E k \in Contributing : NullAt(args[k], r)
ShapeNullAt(r) == \E k \in ShapeColumns : NullAt(args[k], r)
OutIsNull(r) == ~result.valid[IF result.vtype = "CONSTANT" THEN 1 ELSE r]
Width == IF evaluator \in PairEvaluators THEN 2 ELSE 1

\* What the caller reads at row r of an output vector: <<>> for null.
RowValue(res, r, width) ==
    LET j == IF res.vtype = "CONSTANT" THEN 1 ELSE r
    IN  IF ~res.valid[j] THEN <<>>
        ELSE IF width = 2 THEN <<res.data[2 * j - 1], res.data[2 * j]>>
        ELSE <<res.data[j]>>

ShapeP1(r) == Entry(args[1], r)
ShapeP2(r) == IF ShapeArity = 2 THEN Entry(args[2], r) ELSE NoParam

\* The documented domain: trials > 0 and 0 <= prob <= 1; scale > 0.
InDomain(p1, p2) ==
    IF ShapeArity = 2 THEN p1 > 0 /\ DLe(Num(0), p2) /\ DLe(p2, Num(1)) ELSE p1 > 0

EventsOf(e) == {k \in 1..Len(trace) : trace[k].ev = e}
EventsAt(e, r) == {k \in EventsOf(e) : trace[k].row = r}

\* Every row carries the same non-null shape values, and they are in domain.
UniformValidShapes ==
    /\ count >= 1
    /\ \A k \in ShapeColumns : \A r \in 1..count :
           ~NullAt(args[k], r) /\ Entry(args[k], r) = Entry(args[k], 1)
    /\ InDomain(ShapeP1(1), ShapeP2(1))

\* The same batch with its shape columns marked constant / materialized flat.
ConstantShapes ==
    [k \in 1..Len(args) |->
        IF k \in ShapeColumns
        THEN Column("CONSTANT", FALSE, <<TRUE>>, <<Entry(args[k], 1)>>)
        ELSE args[k]]
FlatShapes ==
    [k \in 1..Len(args) |->
        IF k \in ShapeColumns
        THEN Column("FLAT", FALSE, [i \in 1..count |-> TRUE],
                    [i \in 1..count |-> Entry(args[k], 1)])
        ELSE args[k]]

(***************************************************************************)
(* Properties.                                                             *)
(***************************************************************************)

C2_PairNullRowSkippedAndNull ==
    (Done /\ evaluator \in PairEvaluators /\ \E k \in ShapeColumns : ~IsConstant(args[k])) =>
        \A r \in 1..count :
            ShapeNullAt(r) =>
                /\ \A k \in 1..Len(trace) : trace[k].row # r
                /\ Returned => OutIsNull(r)

\* C3: when every row carries the same non-null in-domain shape values, a
\* closed-form evaluator gives every output row the same value with the shape
\* columns marked constant as with the shape columns materialized flat, and
\* that is the value of the call that was made.
C3_ConstantAndFlatAgree ==
    (Done /\ evaluator \in ClosedFormEvaluators /\ UniformValidShapes) =>
        LET c == Evaluate(evaluator, ConstantShapes, count, FALSE, rngPos)
            f == Evaluate(evaluator, FlatShapes, count, FALSE, rngPos)
        IN  /\ c.err = f.err
            /\ error = c.err
            /\ \A r \in 1..count :
                   /\ RowValue(c.res, r, Width) = RowValue(f.res, r, Width)
                   /\ RowValue(result, r, Width) = RowValue(c.res, r, Width)

\* C3 case: a returned two-row pair-valued call on flat shape columns, both
\* rows with the same in-domain values and both rows written.
C3_Witness ==
    /\ Returned
    /\ evaluator = "DistributionCallBinaryNonePair"
    /\ count = 2
    /\ UniformValidShapes
    /\ \A k \in ShapeColumns : ~IsConstant(args[k])
    /\ \A r \in 1..count : Len(RowValue(result, r, Width)) = 2

\* C4: an evaluator that returned applied the operation once in total when
\* the output is constant (never for a constant null), and otherwise exactly
\* once for every non-null output row and never for a null one.
C4_OperationOncePerRow ==
    (Returned /\ evaluator \in ClosedFormEvaluators \cup LegacyEvaluators) =>
        IF result.vtype = "CONSTANT"
        THEN Cardinality(EventsOf("op")) = (IF OutIsNull(1) THEN 0 ELSE 1)
        ELSE \A r \in 1..count :
                Cardinality(EventsAt("op", r)) = (IF OutIsNull(r) THEN 0 ELSE 1)

\* C5: in every call of an evaluator or sampler of utils.hpp, each
\* construction of a distribution is immediately preceded by a call of
\* ValidateParameters for the same row on the same values, which accepted them.
C5_ValidatedBeforeConstructed ==
    (Done /\ evaluator \in ClosedFormEvaluators \cup Samplers) =>
        \A k \in EventsOf("construct") :
            /\ k > 1
            /\ trace[k - 1].ev = "validate"
            /\ trace[k - 1].row = trace[k].row
            /\ trace[k - 1].p1 = trace[k].p1
            /\ trace[k - 1].p2 = trace[k].p2
            /\ (IF ShapeArity = 2 THEN ValidateParameters(trace[k].p1, trace[k].p2)
                ELSE ValidateParameters1(trace[k].p1)) = NoError

\* C5 case: a returned sampler call on the per-row path that constructed a
\* distribution for each of two rows.
C5_Witness ==
    /\ Returned
    /\ evaluator = "DistributionSampleBinary"
    /\ count = 2
    /\ ~IsConstant(args[1])
    /\ Cardinality(EventsOf("construct")) = 2

\* C6: a closed-form evaluator call with a row all of whose contributing
\* inputs are non-null and whose shape parameters are out of domain ends in
\* an InvalidInput error raised by the validation, the last step of the call.
C6_OutOfDomainRaises ==
    (Done /\ evaluator \in ClosedFormEvaluators
          /\ \E r \in 1..count : ~InputNullAt(r) /\ ~InDomain(ShapeP1(r), ShapeP2(r))) =>
        /\ error.kind = "InvalidInput"
        /\ trace # <<>>
        /\ trace[Len(trace)].ev = "validate"

\* C7: no call validates or constructs from the values of a row at which a
\* contributing input is null, and a call on a batch whose every row has a
\* null contributing input returns without an error, every output row null.
C7_NullRowsNotValidated ==
    (Done /\ evaluator \in ClosedFormEvaluators) =>
        /\ \A r \in 1..count :
               InputNullAt(r) => EventsAt("validate", r) \cup EventsAt("construct", r) = {}
        /\ (count >= 1 /\ \A r \in 1..count : InputNullAt(r)) =>
               /\ error.kind = "none"
               /\ trace = <<>>
               /\ \A r \in 1..count : OutIsNull(r)

\* C8: binomial ValidateParameters(trials, prob) raises InvalidInput exactly
\* when trials <= 0 or prob is not within [0, 1].
C8_RaisesExactlyOutsideDomain ==
    (Done /\ evaluator = "ValidateParameters") =>
        ((error.kind = "InvalidInput")
            <=> (args[1] <= 0 \/ ~(DLe(Num(0), args[2]) /\ DLe(args[2], Num(1)))))

\* C9: a call of the exponential statistic evaluator that meets a non-positive
\* lambda on a non-null row raises InvalidInput and constructs no
\* distribution from that value.
C9_NonPositiveScaleRaises ==
    (Done /\ evaluator = "SingleParameterStatisticFunc"
          /\ \E r \in 1..count : ~NullAt(args[1], r) /\ Entry(args[1], r) <= 0) =>
        /\ error.kind = "InvalidInput"
        /\ \A k \in EventsOf("construct") : trace[k].p1 > 0

\* C10: a sampler call over N >= 1 rows with constant non-null shape
\* parameters makes N draws from the thread's generator, output row k holds
\* the k-th of them, and the output is not a constant vector when N > 1.
C10_DrawPerRow ==
    (Returned /\ evaluator \in Samplers \cup LegacySamplers /\ count >= 1
              /\ \A k \in ShapeColumns : IsConstant(args[k]) /\ ~ConstantIsNull(args[k])) =>
        /\ Cardinality(EventsOf("op")) = count
        /\ \A r \in 1..count :
               RowValue(result, r, 1)
                   = <<OpValue("draw", ShapeP1(1), ShapeP2(1), <<rngPos - count + r - 1>>)>>
        /\ count > 1 => result.vtype = "FLAT"

\* Rows of the finished call at which every shape parameter is non-null.
NonNullShapeRows == {r \in 1..count : ~ShapeNullAt(r)}
ConstantNullShape == \E k \in ShapeColumns : IsConstant(args[k]) /\ ConstantIsNull(args[k])

\* C11: a sampler call that returns leaves every row with a null shape
\* parameter null and draws nothing for it; the generator advances by the
\* number of rows without a null shape parameter, and not at all when a
\* shape parameter is a constant null.
C11_NullRowsDrawNothing ==
    [][(phase = "idle" /\ phase' = "done" /\ evaluator' \in Samplers /\ error'.kind = "none") =>
          /\ (\A r \in 1..count : ShapeNullAt(r) => OutIsNull(r) /\ EventsAt("op", r) = {})'
          /\ rngPos' = rngPos + Cardinality(NonNullShapeRows)'
          /\ ConstantNullShape' => rngPos' = rngPos]_vars

\* C11 case: a returned two-row sampler call with one row null through a
\* shape parameter and one draw made for the other row.
C11_Witness ==
    /\ Returned
    /\ evaluator = "DistributionSampleBinary"
    /\ count = 2
    /\ ShapeNullAt(1) /\ OutIsNull(1)
    /\ ~ShapeNullAt(2) /\ ~OutIsNull(2)
    /\ Cardinality(EventsOf("op")) = 1

(***************************************************************************)
(* Properties of the thread-index registry and the generators.             *)
(***************************************************************************)
\* Threads to which get_thread_index has returned, and the index each got first.
Indexed == {t \in Threads : returned[t] # <<>>}
FirstIndex(t) == returned[t][1]

\* C12: under every interleaving, the threads that have called
\* get_thread_index hold pairwise distinct indices, and the K of them hold
\* exactly the indices 0 .. K-1.
C12_DistinctDenseIndices ==
    /\ \A a, b \in Indexed : a # b => FirstIndex(a) # FirstIndex(b)
    /\ {FirstIndex(t) : t \in Indexed} = 0..(Cardinality(Indexed) - 1)

\* C12 case: every thread has made its first call, and one of them had to
\* wait: it was registered after another thread.
C12_Witness ==
    /\ Indexed = Threads
    /\ Cardinality(Threads) >= 2
    /\ \E t \in Threads : FirstIndex(t) = Cardinality(Threads) - 1

\* C13: in every step, no registry entry is removed or changed, a value
\* get_thread_index returns to a thread equals the first it returned to that
\* thread, and no thread's entry has been written more than once.
C13_IndexStable ==
    [][/\ \A t \in DOMAIN thread_id_map :
              t \in DOMAIN thread_id_map' /\ thread_id_map'[t] = thread_id_map[t]
       /\ \A t \in Threads :
              returned'[t] # returned[t] =>
                  returned'[t][Len(returned'[t])] = returned'[t][1]
       /\ \A t \in Threads : mutations'[t] <= 1]_vars

\* C13 case: a thread has called get_thread_index twice (from two
\* translation units) and got the same index, after another thread registered.
C13_Witness ==
    \E t \in Threads :
        /\ Len(returned[t]) = 2
        /\ returned[t][2] = returned[t][1]
        /\ mutations[t] = 1
        /\ Cardinality(DOMAIN thread_id_map) >= 2

\* The generator position a recorded draw was made at.
DrawPos(v) == v[2][4][1]

DrawsBy(t, u) ==
    Cardinality({ki \in (1..Len(samples[t])) \X (1..MaxSampled) :
                    samples[t][ki[1]].unit = u /\ ki[2] <= samples[t][ki[1]].n})

\* C15: a generator of a thread exists only once the thread has used it; it
\* has been seeded exactly once, from the one word seed_seq{GLOBAL_SEED, the
\* thread's index} generates, and its position is the number of draws the
\* owning thread itself has made with it.
C15_SeededOncePerThread ==
    \A t \in Threads, u \in Units :
        LET g == rng[<<t, u>>]
        IN  /\ g.seedings = (IF g.made THEN 1 ELSE 0)
            /\ ~g.made => DrawsBy(t, u) = 0
            /\ g.made =>
                  /\ DrawsBy(t, u) > 0 \/ (pc[t] = "draw" /\ frame[t].unit = u)
                  /\ t \in DOMAIN thread_id_map
                  /\ g.seed = Generate(SeedSeq(GLOBAL_SEED, thread_id_map[t]), 1)[1]
                  /\ g.pos = DrawsBy(t, u)

\* C15 case: two threads have each seeded and used a generator of the same
\* translation unit, and one thread has used it in two calls.
C15_Witness ==
    \E u \in Units :
        /\ \A t \in Threads : rng[<<t, u>>].made /\ DrawsBy(t, u) > 0
        /\ \E t \in Threads :
               Cardinality({k \in 1..Len(samples[t]) : samples[t][k].unit = u}) = 2

\* A second, single-threaded run: the thread with index i makes the calls
\* of the sequence calls, starting from generators that do not exist.
RECURSIVE ReplayFrom(_, _, _, _)
ReplayFrom(word, calls, k, posOf) ==
    IF k > Len(calls) THEN <<>>
    ELSE LET c == calls[k]
             g == [made |-> TRUE, seed |-> word, pos |-> posOf[c.unit], seedings |-> 1]
         IN  <<[unit |-> c.unit, n |-> c.n, vals |-> SampleValues(g, c.n)]>>
             \o ReplayFrom(word, calls, k + 1, [posOf EXCEPT ![c.unit] = SampleEnd(g, c.n)])
Replay(i, calls) ==
    ReplayFrom(Generate(SeedSeq(GLOBAL_SEED, i), 1)[1], calls, 1, [u \in Units |-> 0])

\* C16: the samples a thread has produced are exactly those of a
\* single-threaded run in which the thread has the same index and makes the
\* same sequence of sampling calls, whatever the other threads did meanwhile.
C16_ReproduciblePerThread ==
    \A t \in Threads :
        samples[t] # <<>> =>
            /\ t \in Indexed
            /\ samples[t] = Replay(FirstIndex(t), samples[t])

\* C16 case: a thread that was not the first to register has made two
\* sampling calls while another thread has drawn too.
C16_Witness ==
    \E t, o \in Threads :
        /\ t # o
        /\ Len(samples[t]) = 2
        /\ FirstIndex(t) > 0
        /\ samples[o] # <<>>

\* C17: every function in the catalog whose callback is a sampler is
\* registered VOLATILE, and every function whose callback is a closed-form
\* evaluator is registered CONSISTENT.
C17_StabilityByKind ==
    \A f \in catalog :
        /\ f.function \in Samplers \cup LegacySamplers => f.stability = "VOLATILE"
        /\ f.function \in ClosedFormEvaluators \cup LegacyEvaluators => f.stability = "CONSISTENT"
        /\ f.function \in Samplers \cup LegacySamplers \cup ClosedFormEvaluators \cup LegacyEvaluators

\* C17 case: every loader has returned; the catalog holds samplers and
\* closed-form functions registered through RegisterFunction and through
\* the helpers that pass no stability.
C17_Witness ==
    /\ \A l \in Loaders : Loaded(l)
    /\ \E f \in catalog : f.name = <<"dist", "binomial", "sample">> /\ f.stability = "VOLATILE"
    /\ \E f \in catalog : f.name = <<"dist", "binomial", "pdf">> /\ f.stability = "CONSISTENT"
    /\ \E f \in catalog : f.name = <<"normal_sample">> /\ f.stability = "VOLATILE"
    /\ \E f \in catalog : f.name = <<"normal_pdf">> /\ f.stability = "CONSISTENT"

\* C18: when a pair-valued evaluator returns, every non-null output row r
\* holds the lower value at child slot 2r-1 and the upper value at child slot
\* 2r (slots 2i and 2i+1 counted from 0), no other slot is written, and the
\* all-constant path writes the first two slots from a single evaluation.
C18_PairSlots ==
    (Returned /\ evaluator \in PairEvaluators) =>
        LET rows == IF result.vtype = "CONSTANT" THEN {1} ELSE 1..count
        IN  /\ \A r \in rows :
                   IF OutIsNull(r)
                   THEN result.data[2 * r - 1] = Unset /\ result.data[2 * r] = Unset
                   ELSE result.data[2 * r - 1][1] = "low" /\ result.data[2 * r][1] = "high"
            /\ \A k \in DOMAIN result.data :
                   k > 2 * Cardinality(rows) => result.data[k] = Unset
            /\ (result.vtype = "CONSTANT" /\ ~OutIsNull(1)) => Cardinality(EventsOf("op")) = 1

\* C19: when a call returns, every value found at output row r was computed
\* from the entries the input columns hold for row r (each read through its
\* own selection mapping), and a flat output has nothing written beyond
\* its rows: no row's value sits at another row's position.
C19_RowsStayInPlace ==
    (Returned /\ evaluator \in ClosedFormEvaluators \cup Samplers) =>
        /\ \A r \in 1..count :
               LET v == RowValue(result, r, Width)
               IN  \A j \in 1..Len(v) :
                       v[j] # Unset =>
                           /\ v[j][2] = ShapeP1(r)
                           /\ v[j][3] = ShapeP2(r)
                           /\ HasPoint => v[j][4] = <<Entry(args[Len(args)], r)>>
        /\ result.vtype = "FLAT" =>
               \A k \in DOMAIN result.data :
                   (count >= 1 /\ k > Width * count) => result.data[k] = Unset

\* C19 case: a two-row batch whose rows differ, one column constant and one
\* flat, came back with both rows written.
C19_Witness ==
    /\ Returned
    /\ evaluator = "DistributionCallBinaryUnary"
    /\ count = 2
    /\ IsConstant(args[1]) /\ ~IsConstant(args[2])
    /\ ShapeP2(1) # ShapeP2(2)
    /\ Entry(args[3], 1) # Entry(args[3], 2)
    /\ RowValue(result, 1, 1) # <<>> /\ RowValue(result, 2, 1) # <<>>
    /\ RowValue(result, 1, 1) # RowValue(result, 2, 1)

\* C20: a call of a closed-form evaluator, whether it returns or raises,
\* leaves the generator position, the generators of every thread and the
\* thread-index registry as they were.
C20_ClosedFormLeavesStateAlone ==
    [][(phase = "idle" /\ phase' = "done" /\ evaluator' \in ClosedFormEvaluators) =>
          /\ rngPos' = rngPos
          /\ rng' = rng
          /\ registryVars' = registryVars]_vars

\* C20 case: a closed-form call evaluated at least one row after a sampling
\* call had advanced the generator.
C20_Witness ==
    /\ Returned
    /\ evaluator \in ClosedFormEvaluators
    /\ rngPos > 0
    /\ EventsOf("op") # {}

\* C21: binomial ValidateParameters(trials, prob) with trials <= 0 raises
\* InvalidInput naming trials with the trials value, also when prob is
\* invalid too; with trials > 0 and prob below 0 or above 1 it raises
\* InvalidInput naming prob with the prob value; whenever it raises, the
\* error names one of the two parameters with the value that was passed for
\* it, and nothing else changes (no output written, no event, no draw).
C21_ErrorNamesParameterAndValue ==
    (Done /\ evaluator = "ValidateParameters") =>
        /\ args[1] <= 0 => error = InvalidInput("trials", Num(args[1]))
        /\ (args[1] > 0 /\ (DLt(args[2], Num(0)) \/ DGt(args[2], Num(1)))) =>
               error = InvalidInput("prob", args[2])
        /\ error.kind = "InvalidInput" =>
               \/ error.param = "trials" /\ error.value = Num(args[1]) /\ args[1] <= 0
               \/ error.param = "prob" /\ error.value = args[2] /\ args[1] > 0
        /\ result = FreshResult(0, 1, FALSE) /\ trace = <<>> /\ rngPos = 0

\* C21 case: both parameters are invalid and the error reports the trials.
C21_Witness ==
    /\ Done
    /\ evaluator = "ValidateParameters"
    /\ args[1] < 0
    /\ DGt(args[2], Num(1))
    /\ error = InvalidInput("trials", Num(args[1]))

\* C22: the registry mutex is held only by a thread between the lock and
\* the return of get_thread_index, and under fair scheduling every thread
\* that has called get_thread_index eventually gets its index back.
C22_CallsReturn ==
    /\ [](\A t \in Threads :
              thread_id_map_mutex = t => pc[t] \in {"find", "read", "incr", "insert", "unlock"})
    /\ \A t \in Threads : (pc[t] = "enter") ~> (pc[t] = "seed")

\* C22 case: a thread waits for the mutex while a thread that is already
\* registered is about to leave through the return of the stored index.
C22_Witness ==
    \E t, o \in Threads :
        /\ pc[t] = "enter"
        /\ thread_id_map_mutex = o
        /\ pc[o] = "unlock"
        /\ Len(returned[o]) = 1

\* C23: a call of an evaluator or sampler whose input columns are all
\* constant, at least one of them null, ends without error with the output
\* constant-null, and validates, constructs and evaluates nothing.
C23_ConstantNullShortcut ==
    (Done /\ evaluator \in ClosedFormEvaluators \cup Samplers
          /\ (\A k \in Contributing : IsConstant(args[k]))
          /\ (\E j \in Contributing : ConstantIsNull(args[j]))) =>
        /\ error.kind = "none"
        /\ result.vtype = "CONSTANT"
        /\ ~result.valid[1]
        /\ trace = <<>>

\* All shape columns of the finished call are constant and non-null.
ShapesConstantNonNull ==
    \A k \in ShapeColumns : IsConstant(args[k]) /\ ~ConstantIsNull(args[k])

\* One distribution was validated and constructed in the call, from the
\* constant shape values, and every operation of the call was applied to it.
OneSharedInstance ==
    /\ Cardinality(EventsOf("validate")) = 1
    /\ Cardinality(EventsOf("construct")) = 1
    /\ \A k \in EventsOf("validate") \cup EventsOf("construct") \cup EventsOf("op") :
           trace[k].p1 = ShapeP1(1) /\ trace[k].p2 = ShapeP2(1)
    /\ \A k \in EventsOf("op") : \E c \in EventsOf("construct") : c < k

\* Every row whose inputs are all non-null has a distribution of its own,
\* constructed from that row's values, and every operation is applied to the
\* distribution constructed just before it for the same row and to no other.
FreshInstancePerRow ==
    /\ \A r \in 1..count :
           ~InputNullAt(r) =>
               /\ Cardinality(EventsAt("construct", r)) = 1
               /\ \A c \in EventsAt("construct", r) :
                      trace[c].p1 = ShapeP1(r) /\ trace[c].p2 = ShapeP2(r)
    /\ \A k \in EventsOf("op") :
           /\ k > 1
           /\ trace[k - 1].ev = "construct"
           /\ trace[k - 1].row = trace[k].row
           /\ trace[k - 1].p1 = trace[k].p1
           /\ trace[k - 1].p2 = trace[k].p2

\* C24 as stated: a returned call whose shape parameters are all constant and
\* non-null validated and constructed exactly one distribution and applied
\* every operation to it; a returned call with a varying shape parameter
\* constructed a fresh distribution for each non-null row and used none twice.
C24_OneInstanceWhenConstant ==
    (Returned /\ evaluator \in ClosedFormEvaluators \cup Samplers) =>
        IF ShapesConstantNonNull THEN OneSharedInstance ELSE FreshInstancePerRow

\* C24, corrected: as stated, except that a call whose shape parameters are
\* all constant and non-null and whose evaluation point is a constant null
\* validates and constructs no distribution at all; in every other call with
\* constant non-null shape parameters exactly one instance is built and shared.
C24_OneInstanceUnlessConstantNullPoint ==
    (Returned /\ evaluator \in ClosedFormEvaluators \cup Samplers) =>
        IF ShapesConstantNonNull
        THEN IF HasPoint /\ IsConstant(args[Len(args)]) /\ ConstantIsNull(args[Len(args)])
             THEN trace = <<>>
             ELSE OneSharedInstance
        ELSE FreshInstancePerRow

\* C24 case: constant non-null shape parameters with a flat evaluation point
\* of two non-null rows: one distribution constructed, two operations on it.
C24_Witness ==
    /\ Returned
    /\ evaluator = "DistributionCallBinaryUnary"
    /\ ShapesConstantNonNull
    /\ ~IsConstant(args[3])
    /\ count = 2
    /\ ~InputNullAt(1) /\ ~InputNullAt(2)
    /\ Cardinality(EventsOf("construct")) = 1
    /\ Cardinality(EventsOf("op")) = 2

\* C25: a call of DistributionCallUnaryUnary reads the shape parameter from
\* column 0 and the evaluation point from column 1 of its batch and no column
\* index outside the batch: it raises no internal error, and every operation
\* is applied to the shape value of column 0 at the value of column 1.
C25_ReadsColumnsZeroAndOne ==
    (Done /\ evaluator = "DistributionCallUnaryUnary") =>
        /\ error.kind # "Internal"
        /\ \A k \in EventsOf("op") :
               LET r == IF trace[k].row = 0 THEN 1 ELSE trace[k].row
               IN  /\ trace[k].p1 = Entry(args[1], r)
                   /\ trace[k].arg = <<Entry(args[2], r)>>

\* The registered function f draws random values.
IsSampleFunction(f) == f.function \in Samplers \cup LegacySamplers
\* The sample functions of the discrete distributions.
DiscreteSampleFunctions == {<<"dist", "binomial", "sample">>, <<"bernoulli_sample">>}

\* C26: every registered function declares as its result type the element
\* type its callback writes; a closed-form function is declared and written
\* as double (a pair as an array of two doubles); an integer result type is
\* declared only by sample functions of discrete distributions.
C26_DeclaredTypeIsWrittenType ==
    \A f \in catalog :
        /\ f.return_type = ReturnType(f)
        /\ ~IsSampleFunction(f) =>
               /\ f.return_type \in {"DOUBLE", "ARRAY(DOUBLE, 2)"}
               /\ ReturnType(f) \in {"DOUBLE", "ARRAY(DOUBLE, 2)"}
        /\ f.return_type = "BIGINT" => f.name \in DiscreteSampleFunctions

\* The threads of the process so far: the k-th thread that ran under id t.
ThreadsSoFar == {tk \in Threads \X (1..(MaxExits + 1)) : tk[2] <= Len(exited[tk[1]]) + 1}
\* What get_thread_index returned to such a thread, and its generators' seeds.
ReturnedTo(th) ==
    IF th[2] <= Len(exited[th[1]]) THEN exited[th[1]][th[2]].returned ELSE returned[th[1]]
SeedsGivenTo(th) ==
    IF th[2] <= Len(exited[th[1]]) THEN exited[th[1]][th[2]].seeds ELSE SeedsOf(th[1])

\* C27: over the whole life of the process, threads that have exited and
\* threads started after them included, every thread is always given the same
\* index, and no two distinct threads are given the same index or seed their
\* generators with the same word.
C27_UniqueOverLifetime ==
    /\ \A th \in ThreadsSoFar :
           \A k \in 1..Len(ReturnedTo(th)) : ReturnedTo(th)[k] = ReturnedTo(th)[1]
    /\ \A a, b \in ThreadsSoFar :
           (a # b /\ ReturnedTo(a) # <<>> /\ ReturnedTo(b) # <<>>) =>
               /\ ReturnedTo(a)[1] # ReturnedTo(b)[1]
               /\ SeedsGivenTo(a) \cap SeedsGivenTo(b) = {}

\* The shape columns carry one non-null value each for the whole batch:
\* constant non-null columns, or a batch of at least one row whose rows all
\* hold the same non-null shape values.
UniformShapes ==
    \/ \A k \in ShapeColumns : IsConstant(args[k]) /\ ~ConstantIsNull(args[k])
    \/ /\ count >= 1
       /\ \A k \in ShapeColumns : \A r \in 1..count :
              ~NullAt(args[k], r) /\ Entry(args[k], r) = Entry(args[k], 1)

\* C28: for the same logical row values (an empty batch and a batch whose
\* evaluation points are all null included), the call with the shape columns
\* marked constant raises a validation error exactly when the call with the
\* shape columns materialized flat does.
C28_RaisesAlikeConstantOrFlat ==
    (Done /\ evaluator \in ClosedFormEvaluators \cup Samplers /\ UniformShapes) =>
        LET c == Evaluate(evaluator, ConstantShapes, count, FALSE, rngPos)
            f == Evaluate(evaluator, FlatShapes, count, FALSE, rngPos)
        IN  (c.err.kind = "InvalidInput") <=> (f.err.kind = "InvalidInput")

\* ValidateParameters rejects the shape values of the call's first row.
ShapesFailValidation ==
    (IF ShapeArity = 2 THEN ValidateParameters(ShapeP1(1), ShapeP2(1))
     ELSE ValidateParameters1(ShapeP1(1))) # NoError

\* C29: a sampling call whose shape parameters are constant, non-null and
\* rejected by ValidateParameters ends in that InvalidInput error having
\* drawn nothing: the generator is where it was before the call, no draw
\* happened and no output row was written.
C29_InvalidSampleDrawsNothing ==
    [][(phase = "idle" /\ phase' = "done" /\ evaluator' \in Samplers
          /\ ShapesConstantNonNull' /\ ShapesFailValidation') =>
          /\ error'.kind = "InvalidInput"
          /\ rngPos' = rngPos
          /\ rng' = rng
          /\ EventsOf("op")' = {}
          /\ EventsOf("construct")' = {}
          /\ \A i \in DOMAIN result'.data : result'.data[i] = Unset]_vars

\* C29 case: a two-row sampling call on constant out-of-domain parameters
\* raised after an earlier sampling call had advanced the generator.
C29_Witness ==
    /\ Done
    /\ evaluator = "DistributionSampleBinary"
    /\ ShapesConstantNonNull
    /\ ShapesFailValidation
    /\ count = 2
    /\ rngPos > 0
    /\ error.kind = "InvalidInput"
====
